---- MODULE Spec2Model ----
(***************************************************************************)
(* A model of cimpng.py: the CIM <-> PNG converter.                        *)
(*                                                                         *)
(* State: the command line (argv), the file system (fs), the format chosen *)
(* once per batch (fmt), main's loop index (idx), the program counter      *)
(* (pc), everything printed so far (log), the exception that ended the     *)
(* process, if any (exc), and the locals of read_cim (rc) and of           *)
(* write_cim (wc).                                                         *)
(*                                                                         *)
(* Bytes are integers 0..255 and byte strings are sequences of them.       *)
(* Python integers are unbounded; the model keeps every product below      *)
(* 2^31, so no arithmetic of the model wraps where Python's would not.     *)
(***************************************************************************)
EXTENDS Integers, Sequences, FiniteSets, TLC

VARIABLES argv, fs, fmt, idx, pc, log, exc, rc, wc

vars == <<argv, fs, fmt, idx, pc, log, exc, rc, wc>>

(***************************************************************************)
(* Bounds of the model.                                                    *)
(***************************************************************************)
\* header widths and heights 0..MaxDim (and BigDim) in the decoded streams
MaxDim == 2
\* one larger dimension, needing two header bytes
BigDim == 300
\* payload lengths 0..MaxPayload in the decoded streams
MaxPayload == 9
\* image sides 1..MaxSide of the PNG files given to write_cim
MaxSide == 2
\* files on main's command line
MaxFiles == 2
\* input lengths 0..MaxPxLen of the pixel converters (besides every 16-bit word)
MaxPxLen == 7

(***************************************************************************)
(* Bit operations on naturals, as Python's <<, >>, & and | compute them.   *)
(***************************************************************************)
RECURSIVE Pow2(_)
Pow2(n) == IF n = 0 THEN 1 ELSE 2 * Pow2(n - 1)

Shl(a, n) == a * Pow2(n)

Shr(a, n) == a \div Pow2(n)

RECURSIVE BitAnd(_, _)
BitAnd(a, b) ==
    IF a = 0 \/ b = 0 THEN 0
    ELSE (IF a % 2 = 1 /\ b % 2 = 1 THEN 1 ELSE 0) + 2 * BitAnd(a \div 2, b \div 2)

RECURSIVE BitOr(_, _)
BitOr(a, b) ==
    IF a = 0 THEN b
    ELSE IF b = 0 THEN a
    ELSE (IF a % 2 = 1 \/ b % 2 = 1 THEN 1 ELSE 0) + 2 * BitOr(a \div 2, b \div 2)

(***************************************************************************)
(* The pixel converters.  Each returns [ok, bytes]: ok = FALSE stands for  *)
(* the IndexError that data[i+1] or data[i+2] raises past the end.         *)
(***************************************************************************)
IndexError == [ok |-> FALSE, bytes |-> <<>>]

\* Rgb565Pixel without the replication of the high bits into the low ones
Rgb565PixelNoFill(hi, lo) ==
    LET val == BitOr(Shl(hi, 8), lo)
    IN  <<Shl(BitAnd(Shr(val, 11), 31), 3), Shl(BitAnd(Shr(val, 5), 63), 2),
          Shl(BitAnd(val, 31), 3), 255>>

\* one iteration of convert_rgb565_to_rgba's loop, on data[i], data[i+1]
Rgb565Pixel(hi, lo) ==
    LET val == BitOr(Shl(hi, 8), lo)
        r0  == BitAnd(Shr(val, 11), 31)
        g0  == BitAnd(Shr(val, 5), 63)
        b0  == BitAnd(val, 31)
        r   == BitOr(Shl(r0, 3), Shr(r0, 2))
        g   == BitOr(Shl(g0, 2), Shr(g0, 4))
        b   == BitOr(Shl(b0, 3), Shr(b0, 2))
    IN  <<r, g, b, 255>>

\* range(0, len(data), step), 0-based
Range0(n, step) == {i \in 0..(n - 1) : i % step = 0}

convert_rgb565_to_rgba(d) ==
    LET n      == Len(d)
        starts == Range0(n, 2)
    IN  IF \E i \in starts : i + 1 >= n
        THEN IndexError
        ELSE [ok    |-> TRUE,
              bytes |-> [k \in 1..(4 * Cardinality(starts)) |->
                            LET i == 2 * ((k - 1) \div 4)
                            IN  Rgb565Pixel(d[i + 1], d[i + 2])[((k - 1) % 4) + 1]]]

\* convert_grayscale_to_rgba with the value written to the alpha byte too
convert_grayscale_alpha_v(d) ==
    [ok    |-> TRUE,
     bytes |-> [k \in 1..(4 * Len(d)) |-> d[((k - 1) \div 4) + 1]]]

convert_grayscale_to_rgba(d) ==
    [ok    |-> TRUE,
     bytes |-> [k \in 1..(4 * Len(d)) |->
                   IF (k - 1) % 4 = 3 THEN 255 ELSE d[((k - 1) \div 4) + 1]]]

convert_rgb888_to_rgba(d) ==
    LET n      == Len(d)
        starts == Range0(n, 3)
    IN  IF \E i \in starts : i + 2 >= n
        THEN IndexError
        ELSE [ok    |-> TRUE,
              bytes |-> [k \in 1..(4 * Cardinality(starts)) |->
                            LET i == 3 * ((k - 1) \div 4)
                                c == (k - 1) % 4
                            IN  IF c = 3 THEN 255 ELSE d[i + c + 1]]]

(***************************************************************************)
(* struct.pack(">I", v) and struct.unpack(">I", b): big-endian 32 bits.    *)
(***************************************************************************)
PackU32(v) ==
    <<(v \div 16777216) % 256, (v \div 65536) % 256, (v \div 256) % 256, v % 256>>

UnpackU32(d, off) ==
    d[off + 1] * 16777216 + d[off + 2] * 65536 + d[off + 3] * 256 + d[off + 4]

(***************************************************************************)
(* zlib.  The deflate stream is modelled in its stored-block form (what    *)
(* zlib emits at level 0): the 2-byte zlib header, one final stored block  *)
(* with LEN and its complement NLEN, the bytes, and their Adler-32, big-   *)
(* endian.  zlib_decompress checks all of it and answers [ok, bytes];      *)
(* ok = FALSE stands for zlib.error.                                       *)
(***************************************************************************)
\* the sum of weight(i) * d[i] over lo..hi, by halves; weight(i) = n - i + 1 when
\* weighted (n = Len(d)), 1 otherwise
RECURSIVE ByteSum(_, _, _, _)
ByteSum(d, lo, hi, weighted) ==
    IF lo > hi THEN 0
    ELSE IF lo = hi THEN (IF weighted THEN Len(d) - lo + 1 ELSE 1) * d[lo]
    ELSE LET mid == (lo + hi) \div 2
         IN  ByteSum(d, lo, mid, weighted) + ByteSum(d, mid + 1, hi, weighted)

\* Adler-32: a = 1 + d[1] + ... + d[n], b = the sum of the n values a takes, both
\* modulo 65521; the checksum is b * 65536 + a, written big-endian
Adler32Bytes(d) ==
    LET a == (1 + ByteSum(d, 1, Len(d), FALSE)) % 65521
        b == (Len(d) + ByteSum(d, 1, Len(d), TRUE)) % 65521
    IN  <<b \div 256, b % 256, a \div 256, a % 256>>

zlib_compress(d) ==
    LET n == Len(d)
    IN  <<120, 1, 1, n % 256, n \div 256, 255 - (n % 256), 255 - (n \div 256)>>
        \o d \o Adler32Bytes(d)

zlib_error == [ok |-> FALSE, bytes |-> <<>>]

zlib_decompress(c) ==
    IF Len(c) < 11 THEN zlib_error
    ELSE LET n    == c[4] + 256 * c[5]
             body == SubSeq(c, 8, 7 + n)
         IN  IF /\ c[1] = 120
                /\ (c[1] * 256 + c[2]) % 31 = 0
                /\ c[3] = 1
                /\ c[6] = 255 - c[4]
                /\ c[7] = 255 - c[5]
                /\ Len(c) = 11 + n
                /\ SubSeq(c, 8 + n, 11 + n) = Adler32Bytes(body)
             THEN [ok |-> TRUE, bytes |-> body]
             ELSE zlib_error

(***************************************************************************)
(* Files.  A path is [stem, ext]; a file is missing, holds raw bytes, or   *)
(* is a PNG that Pillow opens as an RGBA image of width x height whose     *)
(* tobytes() is `bytes`.                                                   *)
(***************************************************************************)
Path(stem, ext) == [stem |-> stem, ext |-> ext]

Paths == {Path("a", "cim"), Path("a", "png"), Path("c", "txt")}

Missing == [kind |-> "missing", bytes |-> <<>>, width |-> 0, height |-> 0]

RawFile(b) == [kind |-> "bytes", bytes |-> b, width |-> 0, height |-> 0]

PngFile(im) == [kind |-> "png", bytes |-> im.data, width |-> im.width, height |-> im.height]

\* what open(path, "rb").read() returns: a PNG file starts with the PNG signature
FileBytes(f) == IF f.kind = "png" THEN <<137, 80, 78, 71>> ELSE f.bytes

\* os.path.splitext(file_path)[0] + "." + ext
WithExt(p, ext) == [stem |-> p.stem, ext |-> ext]

Min(a, b) == IF a < b THEN a ELSE b

\* the slice s[:n]
Take(s, n) == SubSeq(s, 1, Min(n, Len(s)))

\* the slice s[n:]
Drop(s, n) == SubSeq(s, n + 1, Len(s))

(***************************************************************************)
(* Pillow, as read_cim and write_cim call it.  An image is [width, height, *)
(* data], data its RGBA bytes.  Image.frombytes raises ValueError ("not    *)
(* enough image data") on a short buffer, reads no data for an image with  *)
(* a zero side (Pillow 10 and later), and ignores what follows the last    *)
(* row.  Pillow's limits on very large sizes are not modelled.             *)
(***************************************************************************)
Image(w, h, d) == [width |-> w, height |-> h, data |-> d]

NoImage == Image(0, 0, <<>>)

ValueError == [ok |-> FALSE, img |-> NoImage]

Image_frombytes(w, h, buf) ==
    IF w = 0 \/ h = 0 THEN [ok |-> TRUE, img |-> Image(w, h, <<>>)]
    ELSE IF Len(buf) < w * h * 4 THEN ValueError
    ELSE [ok |-> TRUE, img |-> Image(w, h, Take(buf, w * h * 4))]

(***************************************************************************)
(* read_cim(file_path, fmt), file_path = argv[idx].                        *)
(***************************************************************************)
RcFresh ==
    [data |-> <<>>, width |-> 0, height |-> 0, file_fmt |-> 0, pixels |-> <<>>,
     bpp |-> 0, warned |-> FALSE, rgba |-> <<>>, img |-> NoImage, built |-> FALSE]

\* the format taken from the header's tag
SelectedFormatFromTag(f, file_fmt) == file_fmt

\* "Ignore file_fmt, use fmt passed from batch prompt"
SelectedFormat(f, file_fmt) == f

\* bpp_map.get(fmt, 4)
bpp_map(f) == IF f = 0 THEN 4 ELSE IF f = 1 THEN 3 ELSE IF f = 2 THEN 2 ELSE IF f = 3 THEN 1 ELSE 4

\* expected_len without the width
expected_len_no_width(w, h, b) == h * b

expected_len(w, h, b) == w * h * b

\* the height rounded up
RepairHeightCeil(n, w, b) == (n + w * b - 1) \div (w * b)

\* height = len(pixels) // (width * bpp)
RepairHeight(n, w, b) == n \div (w * b)

\* pixels = pixels[:width * height * bpp]
RepairPixels(px, w, h, b) == Take(px, w * h * b)

\* the argument of Image.frombytes for each format; fmt is 0..3 here
Unpack(f, px) ==
    IF f = 0 THEN [ok |-> TRUE, bytes |-> px]
    ELSE IF f = 1 THEN convert_rgb888_to_rgba(px)
    ELSE IF f = 2 THEN convert_rgb565_to_rgba(px)
    ELSE convert_grayscale_to_rgba(px)

\* a return to main's loop after printing msg
Return(msg) ==
    /\ log' = Append(log, msg)
    /\ idx' = idx + 1
    /\ pc' = "main_loop"

\* an exception no handler catches: the traceback ends the process
Raise(e) ==
    /\ exc' = e
    /\ pc' = "crashed"

\* lines 43-49: open, read, decompress; only zlib.error is caught
RcOpen ==
    /\ pc = "rc_open"
    /\ LET f == fs[argv[idx]]
           z == zlib_decompress(FileBytes(f))
       IN  IF f.kind = "missing"
           THEN Raise("FileNotFoundError") /\ UNCHANGED <<log, idx, rc>>
           ELSE IF ~z.ok
           THEN Return("ErrDecompress") /\ UNCHANGED <<exc, rc>>
           ELSE /\ rc' = [rc EXCEPT !.data = z.bytes]
                /\ pc' = "rc_header"
                /\ UNCHANGED <<log, idx, exc>>
    /\ UNCHANGED <<argv, fs, fmt, wc>>

\* lines 51-60: the header, the payload, bpp
RcHeader ==
    /\ pc = "rc_header"
    /\ IF Len(rc.data) < 12
       THEN Return("ErrTooShort") /\ UNCHANGED rc
       ELSE /\ rc' = [rc EXCEPT
                        !.width    = UnpackU32(rc.data, 0),
                        !.height   = UnpackU32(rc.data, 4),
                        !.file_fmt = UnpackU32(rc.data, 8),
                        !.pixels   = Drop(rc.data, 12),
                        !.bpp      = bpp_map(SelectedFormat(fmt, UnpackU32(rc.data, 8)))]
            /\ pc' = "rc_repair"
            /\ UNCHANGED <<log, idx>>
    /\ UNCHANGED <<argv, fs, fmt, exc, wc>>

\* lines 62-66: a short payload lowers the height
RcRepair ==
    /\ pc = "rc_repair"
    /\ IF Len(rc.pixels) < expected_len(rc.width, rc.height, rc.bpp)
       THEN /\ log' = Append(log, "WarnShort")
            /\ IF rc.width * rc.bpp = 0
               THEN Raise("ZeroDivisionError") /\ UNCHANGED rc
               ELSE LET h == RepairHeight(Len(rc.pixels), rc.width, rc.bpp)
                    IN  /\ rc' = [rc EXCEPT
                                    !.warned = TRUE,
                                    !.height = h,
                                    !.pixels = RepairPixels(rc.pixels, rc.width, h, rc.bpp)]
                        /\ pc' = "rc_unpack"
                        /\ UNCHANGED exc
       ELSE /\ pc' = "rc_unpack"
            /\ UNCHANGED <<log, exc, rc>>
    /\ UNCHANGED <<argv, fs, fmt, idx, wc>>

\* lines 68-79: the pixel conversion that builds Image.frombytes' argument
RcUnpack ==
    /\ pc = "rc_unpack"
    /\ LET f == SelectedFormat(fmt, rc.file_fmt)
           u == Unpack(f, rc.pixels)
       IN  IF f \notin 0..3
           THEN Return("Unsupported") /\ UNCHANGED rc
           ELSE IF ~u.ok
           THEN Return("FailedCreate") /\ UNCHANGED rc
           ELSE /\ rc' = [rc EXCEPT !.rgba = u.bytes]
                /\ pc' = "rc_frombytes"
                /\ UNCHANGED <<log, idx>>
    /\ UNCHANGED <<argv, fs, fmt, exc, wc>>

\* lines 70-76: Image.frombytes("RGBA", (width, height), ...)
RcFromBytes ==
    /\ pc = "rc_frombytes"
    /\ LET r == Image_frombytes(rc.width, rc.height, rc.rgba)
       IN  IF ~r.ok
           THEN Return("FailedCreate") /\ UNCHANGED rc
           ELSE /\ rc' = [rc EXCEPT !.img = r.img, !.built = TRUE]
                /\ pc' = "rc_save"
                /\ UNCHANGED <<log, idx>>
    /\ UNCHANGED <<argv, fs, fmt, exc, wc>>

\* lines 81-85: img.save; the file system decides whether it succeeds
RcSave ==
    /\ pc = "rc_save"
    /\ \E saved \in BOOLEAN :
          IF saved
          THEN /\ fs' = [fs EXCEPT ![WithExt(argv[idx], "png")] = PngFile(rc.img)]
               /\ Return("CimToPng")
          ELSE /\ Return("FailedCreate")
               /\ UNCHANGED fs
    /\ UNCHANGED <<argv, fmt, exc, rc, wc>>

(***************************************************************************)
(* The decompressed streams read_cim is run on.                            *)
(***************************************************************************)
Pattern(n) == [i \in 1..n |-> (37 * i + 11) % 256]

MkStream(w, h, tag, payload) == PackU32(w) \o PackU32(h) \o PackU32(tag) \o payload

DimVals == (0..MaxDim) \cup {BigDim}

TagVals == {0, 2, 9}

\* the truncation example: 10 x 10, RGB888, 250 bytes of payload
ExampleStream == MkStream(10, 10, 0, Pattern(250))

Streams ==
    {MkStream(w, h, t, Pattern(n)) :
        w \in DimVals, h \in DimVals, t \in TagVals, n \in 0..MaxPayload}
    \cup {ExampleStream}
    \cup {Pattern(n) : n \in {0, 5, 11}}

CimFiles == {Missing, RawFile(<<1, 2, 3>>)} \cup {RawFile(zlib_compress(s)) : s \in Streams}

(***************************************************************************)
(* SpecDecode: one call read_cim(a.cim, fmt), with any selector 0..4.      *)
(***************************************************************************)
InitDecode ==
    /\ argv = <<Path("a", "cim")>>
    /\ \E c \in CimFiles :
          fs = [p \in Paths |-> IF p = Path("a", "cim") THEN c ELSE Missing]
    /\ fmt \in 0..4
    /\ idx = 1
    /\ pc = "rc_open"
    /\ log = <<>>
    /\ exc = "none"
    /\ rc = RcFresh
    /\ wc = NoImage

NextDecode == RcOpen \/ RcHeader \/ RcRepair \/ RcUnpack \/ RcFromBytes \/ RcSave

SpecDecode == InitDecode /\ [][NextDecode]_vars

(***************************************************************************)
(* write_cim(file_path), file_path = argv[idx].  wc is the opened image.   *)
(***************************************************************************)
\* lines 88-92: Image.open(...).convert("RGBA"); every exception is caught
WcOpen ==
    /\ pc = "wc_open"
    /\ LET f == fs[argv[idx]]
       IN  IF f.kind # "png"
           THEN Return("FailedOpen") /\ UNCHANGED wc
           ELSE /\ wc' = Image(f.width, f.height, f.bytes)
                /\ pc' = "wc_save"
                /\ UNCHANGED <<log, idx>>
    /\ UNCHANGED <<argv, fs, fmt, exc, rc>>

\* the header with height before width
HeaderSwapped(w, h) == PackU32(h) \o PackU32(w) \o PackU32(0)

\* struct.pack(">III", width, height, 0)
Header(w, h) == PackU32(w) \o PackU32(h) \o PackU32(0)

\* lines 94-99: zlib.compress(header + raw_data)
Encode(im) == zlib_compress(Header(im.width, im.height) \o im.data)

\* lines 94-107: pack, compress, write; the file system decides whether the write
\* succeeds
WcSave ==
    /\ pc = "wc_save"
    /\ \E saved \in BOOLEAN :
          IF saved
          THEN /\ fs' = [fs EXCEPT ![WithExt(argv[idx], "cim")] = RawFile(Encode(wc))]
               /\ Return("PngToCim")
          ELSE /\ Return("FailedSave")
               /\ UNCHANGED fs
    /\ UNCHANGED <<argv, fmt, exc, rc, wc>>

(***************************************************************************)
(* main.                                                                   *)
(***************************************************************************)
\* what the user may type at the prompt
Choices == {"0", "1", "2", "3", "x"}

\* ask_for_format: a choice outside '0'..'3' defaults to RGBA8888
ask_for_format(choice) ==
    IF choice = "0" THEN 0
    ELSE IF choice = "1" THEN 1
    ELSE IF choice = "2" THEN 2
    ELSE IF choice = "3" THEN 3
    ELSE 0

\* any(f.lower().endswith(".cim") for f in files); the model's extensions are
\* lower-case already
has_cim(files) == \E i \in 1..Len(files) : files[i].ext = "cim"

\* lines 110-121: no file, or the format asked once for the batch
MainStart ==
    /\ pc = "main_start"
    /\ IF Len(argv) = 0
       THEN /\ log' = Append(log, "Usage")
            /\ pc' = "exited"
            /\ UNCHANGED <<fmt, idx>>
       ELSE /\ \E choice \in Choices :
                 fmt' = IF has_cim(argv) THEN ask_for_format(choice) ELSE 0
            /\ idx' = 1
            /\ pc' = "main_loop"
            /\ UNCHANGED log
    /\ UNCHANGED <<argv, fs, exc, rc, wc>>

\* lines 123-130: the dispatch of one file on its extension
MainLoop ==
    /\ pc = "main_loop"
    /\ idx <= Len(argv)
    /\ IF argv[idx].ext = "cim"
       THEN /\ pc' = "rc_open"
            /\ rc' = RcFresh
            /\ UNCHANGED <<log, idx, wc>>
       ELSE IF argv[idx].ext = "png"
       THEN /\ pc' = "wc_open"
            /\ wc' = NoImage
            /\ UNCHANGED <<log, idx, rc>>
       ELSE /\ Return("Skipping")
            /\ UNCHANGED <<rc, wc>>
    /\ UNCHANGED <<argv, fs, fmt, exc>>

\* line 132: the batch is done
MainDone ==
    /\ pc = "main_loop"
    /\ idx > Len(argv)
    /\ log' = Append(log, "BatchDone")
    /\ pc' = "exited"
    /\ UNCHANGED <<argv, fs, fmt, idx, exc, rc, wc>>

(***************************************************************************)
(* Spec: main on a command line of at most MaxFiles files.                 *)
(***************************************************************************)
\* RGBA buffers of n bytes
Buffers(n) == {[i \in 1..n |-> (a + b * i) % 256] : a \in {0, 255}, b \in {0, 77}}

Images == UNION {{Image(w, h, d) : d \in Buffers(w * h * 4)} : w \in 1..MaxSide, h \in 1..MaxSide}

PngFiles == {Missing, RawFile(<<1, 2, 3>>)} \cup {PngFile(im) : im \in Images}

\* a.cim before the run: missing, not zlib, a short header, a good 1 x 1 image, a
\* zero width, a payload one byte too long
MainCimFiles ==
    {Missing, RawFile(<<1, 2, 3>>)}
    \cup {RawFile(zlib_compress(s)) :
            s \in {Pattern(5), MkStream(1, 1, 0, Pattern(4)), MkStream(0, 1, 0, Pattern(4)),
                   MkStream(1, 1, 0, Pattern(5))}}

RECURSIVE SeqsUpTo(_, _)
SeqsUpTo(S, n) ==
    IF n = 0 THEN {<<>>}
    ELSE LET shorter == SeqsUpTo(S, n - 1)
         IN  shorter \cup {Append(q, x) : q \in shorter, x \in S}

Init ==
    /\ argv \in SeqsUpTo(Paths, MaxFiles)
    /\ \E c \in MainCimFiles, g \in PngFiles :
          fs = [p \in Paths |->
                   IF p = Path("a", "cim") THEN c
                   ELSE IF p = Path("a", "png") THEN g
                   ELSE RawFile(<<104, 105>>)]
    /\ fmt = 0
    /\ idx = 0
    /\ pc = "main_start"
    /\ log = <<>>
    /\ exc = "none"
    /\ rc = RcFresh
    /\ wc = NoImage

Next ==
    \/ MainStart \/ MainLoop \/ MainDone
    \/ RcOpen \/ RcHeader \/ RcRepair \/ RcUnpack \/ RcFromBytes \/ RcSave
    \/ WcOpen \/ WcSave

Spec == Init /\ [][Next]_vars

(***************************************************************************)
(* SpecPixel: one converter applied to one input.  rc.pixels is the input, *)
(* fmt the converter (1 RGB888, 2 RGB565, 3 grayscale); rc.rgba is the     *)
(* output and rc.built tells that the converter returned one.              *)
(***************************************************************************)
\* every 16-bit word, and the shorter and longer inputs
PixelInputs ==
    {<<hi, lo>> : hi \in 0..255, lo \in 0..255}
    \cup {Pattern(n) : n \in 0..MaxPxLen}
    \cup {[i \in 1..n |-> 255 - ((91 * i) % 256)] : n \in 0..MaxPxLen}

InitPixel ==
    /\ argv = <<>>
    /\ fs = [p \in Paths |-> Missing]
    /\ fmt \in 1..3
    /\ idx = 0
    /\ pc = "px_in"
    /\ log = <<>>
    /\ exc = "none"
    /\ \E d \in PixelInputs : rc = [RcFresh EXCEPT !.pixels = d]
    /\ wc = NoImage

PxDone(u) ==
    /\ rc' = [rc EXCEPT !.rgba = u.bytes, !.built = u.ok]
    /\ exc' = IF u.ok THEN "none" ELSE "IndexError"
    /\ pc' = "px_out"
    /\ UNCHANGED <<argv, fs, fmt, idx, log, wc>>

PxRgb888 == pc = "px_in" /\ fmt = 1 /\ PxDone(convert_rgb888_to_rgba(rc.pixels))

PxRgb565 == pc = "px_in" /\ fmt = 2 /\ PxDone(convert_rgb565_to_rgba(rc.pixels))

PxGrayscale == pc = "px_in" /\ fmt = 3 /\ PxDone(convert_grayscale_to_rgba(rc.pixels))

NextPixel == PxRgb888 \/ PxRgb565 \/ PxGrayscale

SpecPixel == InitPixel /\ [][NextPixel]_vars

(***************************************************************************)
(* read_cim from the decompressed stream to the image, as one function:    *)
(* what lines 51-79 print, raise or build for stream d and selector f.     *)
(***************************************************************************)
Outcome(kind, im) == [kind |-> kind, img |-> im]

ReadCimResult(d, f) ==
    IF Len(d) < 12 THEN Outcome("ErrTooShort", NoImage)
    ELSE LET w     == UnpackU32(d, 0)
             h     == UnpackU32(d, 4)
             sel   == SelectedFormat(f, UnpackU32(d, 8))
             b     == bpp_map(sel)
             px    == Drop(d, 12)
             short == Len(px) < expected_len(w, h, b)
         IN  IF short /\ w * b = 0 THEN Outcome("ZeroDivisionError", NoImage)
             ELSE LET h2  == IF short THEN RepairHeight(Len(px), w, b) ELSE h
                      px2 == IF short THEN RepairPixels(px, w, h2, b) ELSE px
                      u   == Unpack(sel, px2)
                      r   == Image_frombytes(w, h2, u.bytes)
                  IN  IF sel \notin 0..3 THEN Outcome("Unsupported", NoImage)
                      ELSE IF ~u.ok \/ ~r.ok THEN Outcome("FailedCreate", NoImage)
                      ELSE Outcome("image", r.img)

(***************************************************************************)
(* What the claims speak of.                                               *)
(***************************************************************************)
\* the call of read_cim is past the image, or over
Decoded == pc \in {"rc_save", "main_loop", "crashed", "exited"}

\* what the last call of read_cim came to: the image built, the exception, or the
\* last message printed
Observed ==
    IF rc.built THEN Outcome("image", rc.img)
    ELSE IF pc = "crashed" THEN Outcome(exc, NoImage)
    ELSE IF Len(log) = 0 THEN Outcome("none", NoImage)
    ELSE Outcome(log[Len(log)], NoImage)

\* the header as the stream declares it
DeclaredWidth == UnpackU32(rc.data, 0)

DeclaredHeight == UnpackU32(rc.data, 4)

PayloadLen == Len(rc.data) - 12

\* the stream d with its format_tag field (bytes 8..11) set to t
WithTag(d, t) == SubSeq(d, 1, 8) \o PackU32(t) \o Drop(d, 12)

\* the file p holds the encoding of the image write_cim last opened
EncodedFromWc(p) ==
    /\ wc.width > 0
    /\ wc.height > 0
    /\ Len(wc.data) = wc.width * wc.height * 4
    /\ fs[p] = RawFile(Encode(wc))

(***************************************************************************)
(* C1.  Round trip: read_cim with fmt = 0 on the file write_cim wrote for  *)
(* an image of width w > 0, height h > 0 and w*h*4 RGBA bytes builds an    *)
(* image of the same width, height and bytes; it prints no warning (no     *)
(* repair), raises nothing and does not fail.                              *)
(***************************************************************************)
C1_RoundTrip ==
    \A i \in 1..Len(argv) :
        (fmt = 0 /\ argv[i].ext = "cim" /\ EncodedFromWc(argv[i])) =>
            /\ (idx = i /\ pc \in {"rc_header", "rc_repair", "rc_unpack", "rc_frombytes", "rc_save"}) =>
                   /\ ~rc.warned
                   /\ pc = "rc_frombytes" => rc.rgba = wc.data
                   /\ pc = "rc_save" => rc.img = wc
            /\ (idx = i + 1 /\ pc \in {"main_loop", "exited"}) =>
                   /\ rc.built
                   /\ ~rc.warned
                   /\ rc.img = wc
            /\ pc # "crashed"

C1_Witness ==
    /\ pc = "main_loop"
    /\ idx = 3
    /\ fmt = 0
    /\ argv = <<Path("a", "png"), Path("a", "cim")>>
    /\ log[1] = "PngToCim"
    /\ EncodedFromWc(argv[2])
    /\ wc.width = 1
    /\ wc.height = 2
    /\ wc.data[1] = 76
    /\ rc.built
    /\ rc.img = wc

(***************************************************************************)
(* C2.  Truncation repair: when the header's width is > 0 and the payload  *)
(* is shorter than width*height*bpp, read_cim raises nothing; the height   *)
(* becomes floor(L / (width*bpp)), never above the declared height; the    *)
(* payload becomes its first width*height*bpp bytes; and for the four      *)
(* formats the conversion and the image succeed.  With width 10, height    *)
(* 10, RGB888 and 250 bytes: height 8 and 240 bytes.                       *)
(***************************************************************************)
C2_TruncationRepair ==
    (/\ pc \in {"rc_unpack", "rc_frombytes", "rc_save", "main_loop", "crashed"}
     /\ Len(rc.data) >= 12
     /\ DeclaredWidth > 0
     /\ PayloadLen < DeclaredWidth * DeclaredHeight * bpp_map(fmt)) =>
        LET b == bpp_map(fmt)
        IN  /\ pc # "crashed"
            /\ rc.warned
            /\ rc.width = DeclaredWidth
            /\ rc.height = PayloadLen \div (DeclaredWidth * b)
            /\ rc.height <= DeclaredHeight
            /\ Len(rc.pixels) = DeclaredWidth * rc.height * b
            /\ rc.pixels = SubSeq(rc.data, 13, 12 + DeclaredWidth * rc.height * b)
            /\ (fmt \in 0..3 /\ pc \in {"rc_frombytes", "rc_save", "main_loop"}) =>
                   Len(rc.rgba) = DeclaredWidth * rc.height * 4
            /\ (fmt \in 0..3 /\ pc \in {"rc_save", "main_loop"}) =>
                   /\ rc.built
                   /\ rc.img.width = DeclaredWidth
                   /\ rc.img.height = rc.height
            /\ (rc.data = ExampleStream /\ fmt = 1) =>
                   rc.height = 8 /\ Len(rc.pixels) = 240

C2_Witness ==
    /\ pc = "rc_save"
    /\ rc.data = ExampleStream
    /\ fmt = 1
    /\ rc.warned
    /\ rc.height = 8
    /\ Len(rc.pixels) = 240
    /\ rc.built

(***************************************************************************)
(* C3.  Before the conversion, the payload is exactly width*height*bpp     *)
(* bytes long, for a payload that was shorter than declared and for one    *)
(* that is longer.                                                         *)
(***************************************************************************)
C3_PreUnpackLength ==
    pc = "rc_unpack" => Len(rc.pixels) = rc.width * rc.height * rc.bpp

(***************************************************************************)
(* C4.  A header of width 0 is refused: read_cim goes on neither to the    *)
(* conversion nor to an image of width 0.                                  *)
(***************************************************************************)
C4_ZeroWidthRejected ==
    (Len(rc.data) >= 12 /\ DeclaredWidth = 0) =>
        /\ pc \notin {"rc_unpack", "rc_frombytes", "rc_save"}
        /\ ~rc.built
        /\ exc # "ZeroDivisionError"

(***************************************************************************)
(* C5.  The format_tag of the stream changes nothing: read_cim comes to    *)
(* what it comes to on the same stream with any other tag, under the same  *)
(* selector (the same message or exception, or the same image).            *)
(***************************************************************************)
C5_TagIndependence ==
    (Decoded /\ Len(rc.data) >= 12) =>
        \A t \in TagVals \cup {1, 3} :
            ReadCimResult(WithTag(rc.data, t), fmt) = Observed

C5_Witness ==
    /\ pc = "rc_save"
    /\ fmt = 1
    /\ rc.file_fmt = 2
    /\ rc.img.width = 1
    /\ rc.img.height = 2
    /\ rc.bpp = 3
    /\ Len(rc.pixels) = 6

(***************************************************************************)
(* C6.  No file of the batch ends the process: whatever fails in one       *)
(* file's conversion, main goes on to the next file.                       *)
(***************************************************************************)
C6_ErrorLocality == pc # "crashed"

(***************************************************************************)
(* C7.  RGB565: for the 16-bit big-endian word v, with r = bits 15..11,    *)
(* g = bits 10..5, b = bits 4..0, the pixel is R = (r<<3)|(r>>2),          *)
(* G = (g<<2)|(g>>4), B = (b<<3)|(b>>2), A = 255, stated arithmetically    *)
(* (the two operands of each | share no bit); each channel is in 0..255;   *)
(* 0xFFFF gives (255,255,255), 0x0000 (0,0,0), 0xF800 (255,0,0).           *)
(***************************************************************************)
C7_Rgb565Expansion ==
    (pc = "px_out" /\ fmt = 2 /\ Len(rc.pixels) = 2) =>
        LET v == 256 * rc.pixels[1] + rc.pixels[2]
            r == v \div 2048
            g == (v \div 32) % 64
            b == v % 32
        IN  /\ rc.built
            /\ rc.rgba = <<8 * r + r \div 4, 4 * g + g \div 16, 8 * b + b \div 4, 255>>
            /\ \A k \in 1..4 : rc.rgba[k] \in 0..255
            /\ v = 65535 => rc.rgba = <<255, 255, 255, 255>>
            /\ v = 0 => rc.rgba = <<0, 0, 0, 255>>
            /\ v = 63488 => rc.rgba = <<255, 0, 0, 255>>

C7_Witness ==
    /\ pc = "px_out"
    /\ fmt = 2
    /\ rc.pixels = <<248, 0>>
    /\ rc.rgba = <<255, 0, 0, 255>>

(***************************************************************************)
(* C8.  For RGB888, RGB565 and grayscale, an input of n*bpp bytes gives    *)
(* n*4 bytes, every fourth of them 255; grayscale V gives (V,V,V,255) and  *)
(* RGB888 R,G,B gives (R,G,B,255).                                         *)
(***************************************************************************)
C8_OpaqueAlphaAndSize ==
    (pc = "px_out" /\ Len(rc.pixels) % bpp_map(fmt) = 0) =>
        LET b == bpp_map(fmt)
            n == Len(rc.pixels) \div b
        IN  /\ rc.built
            /\ Len(rc.rgba) = n * 4
            /\ \A k \in 1..n :
                  /\ rc.rgba[4 * k] = 255
                  /\ fmt = 3 => \A c \in 1..3 : rc.rgba[4 * (k - 1) + c] = rc.pixels[k]
                  /\ fmt = 1 => \A c \in 1..3 : rc.rgba[4 * (k - 1) + c] = rc.pixels[3 * (k - 1) + c]

C8_Witness ==
    /\ pc = "px_out"
    /\ fmt = 3
    /\ Len(rc.pixels) = 3
    /\ Len(rc.rgba) = 12
    /\ rc.rgba[5] = rc.pixels[2]
    /\ rc.rgba[8] = 255

(***************************************************************************)
(* C9.  A payload that is not a whole number of pixels is refused: the     *)
(* conversion returns no pixels for it, also when the payload is longer    *)
(* than declared.                                                          *)
(***************************************************************************)
C9_MalformedRejected ==
    pc \in {"rc_frombytes", "rc_save"} => Len(rc.pixels) % rc.bpp = 0

(***************************************************************************)
(* C10.  The division that recomputes the height never divides by zero:    *)
(* when the payload is shorter than expected, width*bpp >= 1, for every    *)
(* selector (bpp is 4 outside 0..3), so read_cim raises no                 *)
(* ZeroDivisionError.                                                      *)
(***************************************************************************)
C10_NoZeroDivision ==
    /\ exc # "ZeroDivisionError"
    /\ (pc = "rc_repair" /\ Len(rc.pixels) < expected_len(rc.width, rc.height, rc.bpp)) =>
           rc.width * rc.bpp >= 1

C10_Witness ==
    /\ pc = "rc_unpack"
    /\ rc.warned
    /\ fmt = 4
    /\ rc.bpp = 4
    /\ rc.width = BigDim
    /\ rc.height = 0

====
